---- MODULE Spec2Model ----
(***************************************************************************)
(* Model of the donation dashboard's pipeline run in src/app.py:           *)
(* load_data (CSV -> table with "ds"/"y" columns) and the stages of main() *)
(* (filter -> metrics/charts -> "Run Forecast": fit -> future frame ->     *)
(* predict).  One run of the script is one behaviour; the uploaded file,   *)
(* the sidebar selections, the slider value and the button are the inputs. *)
(***************************************************************************)
EXTENDS Integers, Sequences, FiniteSets, TLC

VARIABLES
    uploaded,   \* the CSV as pd.read_csv returns it: columns, dtypes, rows
    loaded,     \* what load_data returned: a table, or NoneDf
    messages,   \* the st.error messages load_data issued, in order
    df,         \* main()'s df: the loaded table, then the filtered one
    donors,     \* sidebar multiselect "Donors"
    campaigns,  \* sidebar multiselect "Campaign Types"
    regions,    \* sidebar multiselect "Regions"
    metrics,    \* (total, count, avg) of line 90, or NoMetrics
    months,     \* the slider's value when "Run Forecast" was pressed (0: not pressed)
    fitCalled,  \* m.fit(...) was invoked in this run
    fitInput,   \* the (ds, y) rows handed to m.fit
    fc,         \* the ds column of m.predict's result
    error,      \* the exception that ended the run, or "none"
    pc          \* position of the run in main()

vars == <<uploaded, loaded, messages, df, donors, campaigns, regions, metrics,
          months, fitCalled, fitInput, fc, error, pc>>

----------------------------------------------------------------------------
(* Bounds of the model *)

MaxRows == 3
MaxHorizon == 2

(* The slider of line 125 *)
SliderMin == 1
SliderMax == 60

----------------------------------------------------------------------------
(* Strings.  TLC cannot index a string, so a column name is looked up as    *)
(* its sequence of characters and the string operations work on that.       *)

Chars(s) ==
    CASE s = "date" -> <<"d","a","t","e">>
      [] s = "Date " -> <<"D","a","t","e"," ">>
      [] s = "donor" -> <<"d","o","n","o","r">>
      [] s = "campaign_type" -> <<"c","a","m","p","a","i","g","n","_","t","y","p","e">>
      [] s = "region" -> <<"r","e","g","i","o","n">>
      [] s = "amount" -> <<"a","m","o","u","n","t">>
      [] s = "total_donations_rwf" ->
            <<"t","o","t","a","l","_","d","o","n","a","t","i","o","n","s","_","r","w","f">>
      [] s = "Total_Donations_RWF" ->
            <<"T","o","t","a","l","_","D","o","n","a","t","i","o","n","s","_","R","W","F">>
      [] s = "donation_date_rwf" ->
            <<"d","o","n","a","t","i","o","n","_","d","a","t","e","_","r","w","f">>
      [] s = "donation" -> <<"d","o","n","a","t","i","o","n">>
      [] s = "rwf" -> <<"r","w","f">>
      [] s = "ds" -> <<"d","s">>
      [] s = "y" -> <<"y">>

LowerChar(ch) ==
    CASE ch = "D" -> "d"
      [] ch = "T" -> "t"
      [] ch = "R" -> "r"
      [] ch = "W" -> "w"
      [] ch = "F" -> "f"
      [] OTHER -> ch

\* str.lower()
Lower(cs) == [i \in 1..Len(cs) |-> LowerChar(cs[i])]

\* the substring test  t in s
Contains(s, t) ==
    \E i \in 1..(Len(s) - Len(t) + 1) : SubSeq(s, i, i + Len(t) - 1) = t

\* "date" in c.lower()                                       (line 16)
IsDateLikeCaseSensitive(c) == Contains(Chars(c), Chars("date"))

IsDateLike(c) == Contains(Lower(Chars(c)), Chars("date"))

\* "donation" in c.lower() and "rwf" in c.lower()            (line 26)
IsDonationCol(c) ==
    /\ Contains(Lower(Chars(c)), Chars("donation"))
    /\ Contains(Lower(Chars(c)), Chars("rwf"))

----------------------------------------------------------------------------
(* Dates.  A date cell of the CSV is its text "YYYY-MM-DD", kept as the     *)
(* eight digits; a Timestamp is <<year, month, day>>.                       *)

IsLeap(y) == (y % 4 = 0 /\ y % 100 # 0) \/ y % 400 = 0

DaysInMonth(y, m) ==
    IF m = 2 THEN (IF IsLeap(y) THEN 29 ELSE 28)
    ELSE IF m \in {4, 6, 9, 11} THEN 30 ELSE 31

ParseYear(t) == t[1] * 1000 + t[2] * 100 + t[3] * 10 + t[4]
ParseMonth(t) == t[5] * 10 + t[6]
ParseDay(t) == t[7] * 10 + t[8]

\* does pd.to_datetime accept the text
Parseable(t) ==
    /\ ParseMonth(t) \in 1..12
    /\ ParseDay(t) \in 1..DaysInMonth(ParseYear(t), ParseMonth(t))

\* the Timestamp pd.to_datetime makes of an accepted text
ToTimestamp(t) == <<ParseYear(t), ParseMonth(t), ParseDay(t)>>

DateLess(a, b) ==
    \/ a[1] < b[1]
    \/ a[1] = b[1] /\ a[2] < b[2]
    \/ a[1] = b[1] /\ a[2] = b[2] /\ a[3] < b[3]

----------------------------------------------------------------------------
(* Tables.  A table is [columns, dtypes, rows]; a row is [idx, cells] with  *)
(* idx its index label and cells aligned with columns.                      *)

NoneDf == [none |-> TRUE]
NoMetrics == [none |-> TRUE]

\* positions of the columns called name
Positions(t, name) == {i \in 1..Len(t.columns) : t.columns[i] = name}

\* name in df
HasColumn(t, name) == Positions(t, name) # {}

\* the one position of a column that occurs once
Pos(t, name) == CHOOSE i \in Positions(t, name) : TRUE

\* the value of row r in the column called name
Cell(t, r, name) == r.cells[Pos(t, name)]

----------------------------------------------------------------------------
(* load_data                                                     lines 14-32 *)

\* [c for c in df.columns if ...]: the names passing the test, in column order
DateCols(t) == SelectSeq(t.columns, IsDateLike)
YCols(t) == SelectSeq(t.columns, IsDonationCol)

\* pd.to_datetime(df[date_col]) raises when a value is no date   (lines 21-23)
ToDatetimeRaises(t, date_col) ==
    \E k \in 1..Len(t.rows) : ~Parseable(Cell(t, t.rows[k], date_col))

\* df[date_col] = pd.to_datetime(df[date_col])                      (line 22)
WithDatetime(t, date_col) ==
    LET p == Pos(t, date_col) IN
    [columns |-> t.columns,
     dtypes |-> [t.dtypes EXCEPT ![p] = "datetime64"],
     rows |-> [k \in 1..Len(t.rows) |->
                 [t.rows[k] EXCEPT !.cells[p] = ToTimestamp(t.rows[k].cells[p])]]]

\* df.rename(columns={date_col: "ds", y_col: "y"}): in the dict literal a
\* repeated key keeps its last value, so date_col = y_col maps to "y" alone
Rename(t, date_col, y_col) ==
    [t EXCEPT !.columns =
        [i \in 1..Len(t.columns) |->
            IF t.columns[i] = y_col THEN "y"
            ELSE IF t.columns[i] = date_col THEN "ds"
            ELSE t.columns[i]]]

\* a variant that coerces instead of raising: unparseable rows are dropped
LoadDataCoerce(t) ==
    IF DateCols(t) = <<>>
    THEN [df |-> NoneDf, messages |-> <<"No date-like column found">>]
    ELSE LET date_col == DateCols(t)[1]
             p == Pos(t, date_col)
             IsGood(r) == Parseable(r.cells[p])
             kept == [t EXCEPT !.rows = SelectSeq(t.rows, IsGood)]
         IN IF YCols(t) = <<>>
            THEN [df |-> NoneDf, messages |-> <<"No donation column found">>]
            ELSE [df |-> Rename(WithDatetime(kept, date_col), date_col, YCols(t)[1]),
                  messages |-> <<>>]

\* load_data(uploaded_file): the returned table (or None) and the st.error texts
LoadData(t) ==
    IF DateCols(t) = <<>>
    THEN [df |-> NoneDf, messages |-> <<"No date-like column found">>]
    ELSE LET date_col == DateCols(t)[1] IN
         IF ToDatetimeRaises(t, date_col)
         THEN [df |-> NoneDf, messages |-> <<"Cannot parse as dates">>]
         ELSE IF YCols(t) = <<>>
         THEN [df |-> NoneDf, messages |-> <<"No donation column found">>]
         ELSE [df |-> Rename(WithDatetime(t, date_col), date_col, YCols(t)[1]),
               messages |-> <<>>]

----------------------------------------------------------------------------
(* The uploads the model draws from *)

Headers ==
    { <<"date", "donor", "campaign_type", "region", "total_donations_rwf">>,
      <<"date", "donor", "campaign_type", "region", "amount">>,
      <<"Date ", "region", "Total_Donations_RWF">>,
      <<"donor", "region", "amount">>,
      <<"donation_date_rwf", "donor">>,
      <<"date", "y", "total_donations_rwf">> }

\* donation records: date text, donor, campaign type, region, amount
RowPool ==
    { [date |-> <<2,0,2,4,0,1,0,5>>, donor |-> "A", campaign_type |-> "X",
       region |-> "North", amount |-> 100],
      [date |-> <<2,0,2,4,0,2,1,0>>, donor |-> "B", campaign_type |-> "Y",
       region |-> "South", amount |-> 200],
      [date |-> <<2,0,2,4,0,1,0,1>>, donor |-> "A", campaign_type |-> "X",
       region |-> "North", amount |-> 150],
      [date |-> <<2,0,2,4,0,2,0,1>>, donor |-> "B", campaign_type |-> "Y",
       region |-> "South", amount |-> 200],
      [date |-> <<2,0,2,4,1,2,3,1>>, donor |-> "A", campaign_type |-> "Y",
       region |-> "South", amount |-> 75],
      [date |-> <<2,0,2,4,0,2,3,0>>, donor |-> "B", campaign_type |-> "X",
       region |-> "South", amount |-> 10] }

\* what a record puts in the column called c
FieldValue(rec, c) ==
    CASE c \in {"date", "Date ", "donation_date_rwf"} -> rec.date
      [] c = "donor" -> rec.donor
      [] c = "campaign_type" -> rec.campaign_type
      [] c = "region" -> rec.region
      [] OTHER -> rec.amount

\* the dtype pd.read_csv infers for the column called c
InferredDtype(c) ==
    IF c \in {"date", "Date ", "donation_date_rwf", "donor", "campaign_type", "region"}
    THEN "object" ELSE "int64"

\* pd.read_csv: the header, the inferred dtypes, the rows indexed 0..n-1  (line 15)
ReadCsv(header, recs) ==
    [columns |-> header,
     dtypes |-> [i \in 1..Len(header) |-> InferredDtype(header[i])],
     rows |-> [k \in 1..Len(recs) |->
                 [idx |-> k - 1,
                  cells |-> [i \in 1..Len(header) |-> FieldValue(recs[k], header[i])]]]]

RecordLists == UNION {[1..n -> RowPool] : n \in 1..MaxRows}

Uploads == {ReadCsv(h, recs) : h \in Headers, recs \in RecordLists}

----------------------------------------------------------------------------
Init ==
    /\ uploaded \in Uploads
    /\ loaded = NoneDf
    /\ messages = <<>>
    /\ df = NoneDf
    /\ donors = {}
    /\ campaigns = {}
    /\ regions = {}
    /\ metrics = NoMetrics
    /\ months = 0
    /\ fitCalled = FALSE
    /\ fitInput = <<>>
    /\ fc = <<>>
    /\ error = "none"
    /\ pc = "upload"

\* df = load_data(uploaded); if df is None: return               (lines 71-73)
Load ==
    /\ pc = "upload"
    /\ LET res == LoadData(uploaded) IN
         /\ loaded' = res.df
         /\ messages' = res.messages
         /\ df' = res.df
         /\ pc' = IF res.df = NoneDf THEN "stopped" ELSE "loaded"
    /\ UNCHANGED <<uploaded, donors, campaigns, regions, metrics, months,
                   fitCalled, fitInput, fc, error>>

----------------------------------------------------------------------------
(* The filter step of main()                                     lines 76-87 *)

\* df.get(name, pd.Series()).unique(): the options a multiselect offers
Options(t, name) ==
    IF HasColumn(t, name)
    THEN {Cell(t, t.rows[k], name) : k \in 1..Len(t.rows)}
    ELSE {}

\* a variant that forgets the region restriction
FilterNoRegions(t, ds, cs, rs) ==
    IF ds # {} \/ cs # {} \/ rs # {}
    THEN LET mask(r) ==
                 /\ (ds # {} => Cell(t, r, "donor") \in ds)
                 /\ (cs # {} => Cell(t, r, "campaign_type") \in cs)
         IN [t EXCEPT !.rows = SelectSeq(t.rows, mask)]
    ELSE t

\* a variant in which an empty selection matches nothing
FilterIsinAlways(t, ds, cs, rs) ==
    LET mask(r) ==
             /\ (HasColumn(t, "donor") => Cell(t, r, "donor") \in ds)
             /\ (HasColumn(t, "campaign_type") => Cell(t, r, "campaign_type") \in cs)
             /\ (HasColumn(t, "region") => Cell(t, r, "region") \in rs)
    IN [t EXCEPT !.rows = SelectSeq(t.rows, mask)]

\* if donors or campaigns or regions: mask = True; mask &= isin(...) for each
\* non-empty selection; df = df[mask]                             (lines 79-87)
Filter(t, ds, cs, rs) ==
    IF ds # {} \/ cs # {} \/ rs # {}
    THEN LET mask(r) ==
                 /\ (ds # {} => Cell(t, r, "donor") \in ds)
                 /\ (cs # {} => Cell(t, r, "campaign_type") \in cs)
                 /\ (rs # {} => Cell(t, r, "region") \in rs)
         IN [t EXCEPT !.rows = SelectSeq(t.rows, mask)]
    ELSE t

\* the three multiselects return any subsets of their options, then the mask
SelectAndFilter ==
    /\ pc = "loaded"
    /\ \E ds \in SUBSET Options(df, "donor"),
          cs \in SUBSET Options(df, "campaign_type"),
          rs \in SUBSET Options(df, "region") :
         /\ donors' = ds
         /\ campaigns' = cs
         /\ regions' = rs
         /\ df' = Filter(df, ds, cs, rs)
    /\ pc' = "filtered"
    /\ UNCHANGED <<uploaded, loaded, messages, metrics, months, fitCalled,
                   fitInput, fc, error>>

----------------------------------------------------------------------------
(* Metrics and charts                                           lines 90-121 *)

RECURSIVE SumSeq(_)
SumSeq(s) == IF s = <<>> THEN 0 ELSE Head(s) + SumSeq(Tail(s))

\* df["y"] as a list of values
YValues(t) == [k \in 1..Len(t.rows) |-> Cell(t, t.rows[k], "y")]

\* total, count, avg = df["y"].sum(), df.shape[0], df["y"].mean(); the mean of
\* no rows is NaN, otherwise the quotient total / count
ComputeMetrics(t) ==
    [total |-> SumSeq(YValues(t)),
     count |-> Len(t.rows),
     avg |-> IF Len(t.rows) = 0 THEN <<"nan">>
             ELSE <<SumSeq(YValues(t)), Len(t.rows)>>]

\* the exception lines 90-98 raise on table t, or "none":
\*   two columns named "y": df["y"].sum() is a Series, its f"{total:,.0f}" fails
\*   a datetime64 "y": the sum is not defined
\*   no column "ds": px.line(df, x="ds", ...) fails
RenderError(t) ==
    IF Cardinality(Positions(t, "y")) > 1 THEN "TypeError"
    ELSE IF t.dtypes[Pos(t, "y")] = "datetime64" THEN "TypeError"
    ELSE IF ~HasColumn(t, "ds") THEN "ValueError"
    ELSE "none"

Render ==
    /\ pc = "filtered"
    /\ IF RenderError(df) = "none"
       THEN /\ metrics' = ComputeMetrics(df)
            /\ pc' = "rendered"
            /\ error' = error
       ELSE /\ metrics' = metrics
            /\ pc' = "crashed"
            /\ error' = RenderError(df)
    /\ UNCHANGED <<uploaded, loaded, messages, df, donors, campaigns, regions,
                   months, fitCalled, fitInput, fc>>

----------------------------------------------------------------------------
(* Forecast                                                    lines 124-131 *)

\* df[["ds","y"]]
DsY(t) == [k \in 1..Len(t.rows) |->
             [ds |-> Cell(t, t.rows[k], "ds"), y |-> Cell(t, t.rows[k], "y")]]

\* Prophet.fit refuses a frame of fewer than 2 rows with its own ValueError;
\* there is no check before the call
FitRaises(history) == Len(history) < 2

\* the slider offers SliderMin..SliderMax; the model draws up to MaxHorizon
Horizons == {h \in SliderMin..SliderMax : h <= MaxHorizon}

\* months = slider(...); if button("Run Forecast"): m = Prophet(); m.fit(df[["ds","y"]])
RunForecast ==
    /\ pc = "rendered"
    /\ \E h \in Horizons : months' = h
    /\ fitCalled' = TRUE
    /\ fitInput' = DsY(df)
    /\ IF FitRaises(DsY(df))
       THEN pc' = "crashed" /\ error' = "ValueError"
       ELSE pc' = "fitted" /\ error' = error
    /\ UNCHANGED <<uploaded, loaded, messages, df, donors, campaigns, regions,
                   metrics, fc>>

\* the last day of d's month: the first 'M' (month-end) stamp at or after d
MonthEnd(d) == <<d[1], d[2], DaysInMonth(d[1], d[2])>>

\* the month-end after the month-end e
NextMonthEnd(e) ==
    IF e[2] = 12 THEN <<e[1] + 1, 1, 31>>
    ELSE <<e[1], e[2] + 1, DaysInMonth(e[1], e[2] + 1)>>

\* pd.date_range(start=start, periods=n, freq='M')
RECURSIVE DateRangeM(_, _)
DateRangeM(start, n) ==
    IF n = 0 THEN <<>>
    ELSE <<MonthEnd(start)>> \o
         (IF n = 1 THEN <<>> ELSE DateRangeM(NextMonthEnd(MonthEnd(start)), n - 1))

\* the dates of a set in ascending order
RECURSIVE SortedDates(_)
SortedDates(S) ==
    IF S = {} THEN <<>>
    ELSE LET lo == CHOOSE d \in S : \A e \in S \ {d} : DateLess(d, e)
         IN <<lo>> \o SortedDates(S \ {lo})

\* Prophet keeps history_dates = the sorted unique ds of the fitted frame
HistoryDates(history) == SortedDates({history[k].ds : k \in 1..Len(history)})

\* m.make_future_dataframe(periods, freq='M'): the stamps of
\* date_range(last, periods + 1, 'M') after the last history date, the first
\* `periods` of them, appended to history_dates                   (line 130)
MakeFutureDataframe(history, periods) ==
    LET hd == HistoryDates(history)
        last == hd[Len(hd)]
        After(d) == DateLess(last, d)
        dates == SelectSeq(DateRangeM(last, periods + 1), After)
    IN hd \o SubSeq(dates, 1, periods)

\* fut = m.make_future_dataframe(periods=months, freq='M'); fc = m.predict(fut):
\* predict returns one row per row of fut                    (lines 130-131)
Predict ==
    /\ pc = "fitted"
    /\ fc' = MakeFutureDataframe(fitInput, months)
    /\ pc' = "done"
    /\ UNCHANGED <<uploaded, loaded, messages, df, donors, campaigns, regions,
                   metrics, months, fitCalled, fitInput, error>>

Next ==
    \/ Load
    \/ SelectAndFilter
    \/ Render
    \/ RunForecast
    \/ Predict

Spec == Init /\ [][Next]_vars

----------------------------------------------------------------------------
(* Properties *)

\* the run is past the filter step
Filtered == pc \in {"filtered", "rendered", "crashed", "fitted", "done"}

RowSet(t) == {t.rows[k] : k \in 1..Len(t.rows)}

\* C1: the rows the filter keeps are rows of the loaded table, unchanged and
\* not repeated, and each kept row's donor / campaign_type / region value is
\* in the corresponding selection whenever that selection is not empty.
FilterSound ==
    Filtered =>
        /\ df.columns = loaded.columns
        /\ RowSet(df) \subseteq RowSet(loaded)
        /\ \A i, j \in 1..Len(df.rows) : i < j => df.rows[i].idx < df.rows[j].idx
        /\ \A r \in RowSet(df) :
              /\ donors # {} => Cell(df, r, "donor") \in donors
              /\ campaigns # {} => Cell(df, r, "campaign_type") \in campaigns
              /\ regions # {} => Cell(df, r, "region") \in regions

\* C1 witness: donor and region selections together kept some rows and removed others
FilterSoundWitness ==
    /\ Filtered
    /\ donors # {}
    /\ regions # {}
    /\ Len(df.rows) > 0
    /\ Len(df.rows) < Len(loaded.rows)

\* C2: a dimension with an empty selection removes no row: the kept rows are
\* exactly the loaded rows passing the membership test of every non-empty
\* selection, and with all three empty the table is unchanged.
EmptySelectionNoRestriction ==
    Filtered =>
        LET dims == {<<"donor", donors>>, <<"campaign_type", campaigns>>,
                     <<"region", regions>>}
            passes(r) == \A d \in dims : d[2] = {} \/ Cell(loaded, r, d[1]) \in d[2]
        IN /\ RowSet(df) = {r \in RowSet(loaded) : passes(r)}
           /\ (donors = {} /\ campaigns = {} /\ regions = {}) => df = loaded

\* C2 witness: the donor selection is empty while a region selection removed
\* some rows and kept rows of more than one donor
EmptySelectionWitness ==
    /\ Filtered
    /\ donors = {}
    /\ campaigns = {}
    /\ regions # {}
    /\ Len(df.rows) < Len(loaded.rows)
    /\ Cardinality(Options(df, "donor")) > 1

\* the calendar month a date falls in
Period(d) == <<d[1], d[2], 1>>

Periods(series) == {Period(series[k].ds) : k \in 1..Len(series)}

\* C3: when "Run Forecast" is triggered on a series of 0 or 1 distinct periods
\* the run ends in the pipeline's own InsufficientDataError and fit is never
\* invoked.
InsufficientDataRejected ==
    (months # 0 /\ Cardinality(Periods(DsY(df))) < 2) =>
        (error = "InsufficientDataError" /\ ~fitCalled)

\* C4: when the filters eliminate every row of a non-empty table, no run
\* computes the metrics and then reaches the model's fit.
EmptyResultStopsRun ==
    (Filtered /\ Len(loaded.rows) > 0 /\ Len(df.rows) = 0) =>
        ~(metrics # NoMetrics /\ fitCalled)

\* str.strip() of a character sequence
RECURSIVE Strip(_)
Strip(cs) ==
    IF cs = <<>> THEN cs
    ELSE IF Head(cs) = " " THEN Strip(Tail(cs))
    ELSE IF cs[Len(cs)] = " " THEN Strip(SubSeq(cs, 1, Len(cs) - 1))
    ELSE cs

Required == {"date", "donor", "campaign_type", "region", "amount"}

MissingRequired(t) ==
    {q \in Required :
        \A i \in 1..Len(t.columns) : Strip(Lower(Chars(t.columns[i]))) # Chars(q)}

\* what the uploaded header and date cells say, read off independently of load_data
HasDateName == \E i \in 1..Len(uploaded.columns) :
                  Contains(Lower(Chars(uploaded.columns[i])), Chars("date"))
HasDonationName == \E i \in 1..Len(uploaded.columns) :
                      /\ Contains(Lower(Chars(uploaded.columns[i])), Chars("donation"))
                      /\ Contains(Lower(Chars(uploaded.columns[i])), Chars("rwf"))
FirstDatePos == CHOOSE i \in 1..Len(uploaded.columns) :
                   /\ Contains(Lower(Chars(uploaded.columns[i])), Chars("date"))
                   /\ \A j \in 1..(i - 1) :
                         ~Contains(Lower(Chars(uploaded.columns[j])), Chars("date"))
FirstDonationPos == CHOOSE i \in 1..Len(uploaded.columns) :
                       /\ Contains(Lower(Chars(uploaded.columns[i])), Chars("donation"))
                       /\ Contains(Lower(Chars(uploaded.columns[i])), Chars("rwf"))
                       /\ \A j \in 1..(i - 1) :
                             ~(/\ Contains(Lower(Chars(uploaded.columns[j])), Chars("donation"))
                               /\ Contains(Lower(Chars(uploaded.columns[j])), Chars("rwf")))
BadDateRows == {k \in 1..Len(uploaded.rows) :
                   ~Parseable(uploaded.rows[k].cells[FirstDatePos])}

BadDateRowsDropped ==
    (/\ pc # "upload"
     /\ HasDateName
     /\ HasDonationName
     /\ BadDateRows # {}
     /\ BadDateRows # 1..Len(uploaded.rows)) =>
        /\ loaded # NoneDf
        /\ {r.idx : r \in RowSet(loaded)} =
              {uploaded.rows[k].idx : k \in (1..Len(uploaded.rows)) \ BadDateRows}
        /\ messages # <<>>

\* C6 amended: the date parse is all-or-nothing.  If any value of the date
\* column fails to parse, load_data reports "Cannot parse ... as dates",
\* returns None and the run stops: no row is returned and no drop count is
\* reported.  A table that is returned holds every uploaded row, in order.
DateParseAllOrNothing ==
    pc # "upload" =>
        /\ (HasDateName /\ BadDateRows # {}) =>
              /\ loaded = NoneDf
              /\ messages = <<"Cannot parse as dates">>
              /\ pc = "stopped"
        /\ loaded # NoneDf =>
              /\ Len(loaded.rows) = Len(uploaded.rows)
              /\ \A k \in 1..Len(uploaded.rows) :
                    loaded.rows[k].idx = uploaded.rows[k].idx

\* C6 witness: a load that failed on a table with both good and bad dates
DateParseWitness ==
    /\ pc = "stopped"
    /\ messages = <<"Cannot parse as dates">>
    /\ BadDateRows # {}
    /\ BadDateRows # 1..Len(uploaded.rows)

\* C7: the series handed to the model has strictly increasing periods, rows of
\* one calendar month having been summed into one entry.
SeriesStrictlyIncreasing ==
    fitCalled =>
        \A i, j \in 1..Len(fitInput) :
            i < j => DateLess(Period(fitInput[i].ds), Period(fitInput[j].ds))

\* C8: for a series of at least 2 periods the forecast result has exactly
\* history_length + horizon rows, history_length being the number of entries
\* handed to the model.
ForecastRowCount ==
    (pc = "done" /\ Cardinality(Periods(fitInput)) >= 2) =>
        Len(fc) = Len(fitInput) + months

FirstOfNextMonth(d) ==
    IF d[2] = 12 THEN <<d[1] + 1, 1, 1>> ELSE <<d[1], d[2] + 1, 1>>

\* C9: for a history on the monthly grid (first days of increasing months, as
\* in [(2024-01-01, 150), (2024-02-01, 200)] with horizon 1) the result has
\* history + horizon rows and each future period is the first day of the
\* month after the previous period.
FutureOnBucketGrid ==
    (/\ pc = "done"
     /\ \A k \in 1..Len(fitInput) : fitInput[k].ds[3] = 1
     /\ \A k \in 1..(Len(fitInput) - 1) : DateLess(fitInput[k].ds, fitInput[k + 1].ds)) =>
        /\ Len(fc) = Len(fitInput) + months
        /\ \A k \in (Len(fitInput) + 1)..Len(fc) : fc[k] = FirstOfNextMonth(fc[k - 1])

\* C10: a table load_data returns has exactly one column named "ds" and
\* exactly one named "y".
OneDsOneY ==
    loaded # NoneDf =>
        /\ Cardinality(Positions(loaded, "ds")) = 1
        /\ Cardinality(Positions(loaded, "y")) = 1

====
